---- MODULE Spec2Model ----
(***************************************************************************)
(* Model of the library system: the borrowing engine                       *)
(* (src/js/borrowing-system.js) with its borrower directory, loan ledger   *)
(* and queries, the login of AuthSystem (src/unnamed/part_003), the        *)
(* browser-wide localStorage both are saved to, and the clock.             *)
(*                                                                         *)
(* Encodings.                                                              *)
(*  - An instant is an integer number of clock ticks; a day is TicksPerDay *)
(*    ticks in the specifications of the borrowing engine, and the lockout *)
(*    duration is TicksPerLockout ticks in the one of the login.           *)
(*    Date#toISOString / new Date(string) round-trip exactly at            *)
(*    millisecond precision, so a stored date is the instant itself.       *)
(*  - Date.now().toString() is injective on instants, so an id is the      *)
(*    instant it was taken from.                                           *)
(*  - A JavaScript string is a sequence of one-character strings; a        *)
(*    number printed in a radix is the sequence of its digits' values.     *)
(*  - An amount of money is a whole number of hundredths.                  *)
(*  - An optional value (an omitted argument, null, undefined, a missing   *)
(*    localStorage key) is the empty sequence <<>>; a present value v is   *)
(*    <<v>>.                                                               *)
(*  - BorrowingSystem objects are numbered; borrowers[i] and               *)
(*    transactions[i] are the fields of object i.  localStorage is shared. *)
(***************************************************************************)
EXTENDS Integers, Sequences, FiniteSets, TLC

\* ---------------------------------------------------------------- bounds
MaxTime == 1
TicksPerDay == 2
MaxBorrowers == 2
MaxTx == 2
\* how far the clock runs in the specifications of the queries
ReadHorizon == 3
\* the login specification: ticks in a lockout duration, how far its clock runs,
\* and how many sessions are opened
TicksPerLockout == 3
AuthHorizon == 4
MaxSessions == 2
\* how many user records there are, the default admin included
MaxUsers == 2
\* the audit log: how many entries are logged, and how many entries
\* localStorage is sure to have room for
MaxLogged == 1002
StoreRoom == 998

\* ------------------------------------------------------ program constants
defaultLoanDays == 14
\* the default of calculateFine's dailyFine, 0.50, in hundredths
defaultDailyFine == 50
maxLoginAttempts == 5
\* this.lockoutDuration = 15 * 60 * 1000, in minutes and in ticks
lockoutMinutes == 15
lockoutDuration == TicksPerLockout
\* the AuditLogger keeps maxLogs entries, and fullStoreLogs of them when
\* localStorage is full
maxLogs == 1000
fullStoreLogs == 500

VARIABLES now, borrowers, transactions, lsBorrowers, lsTransactions, ret, holders,
          users, currentUser, sessions, lsAuth, failures,
          logs, lsLogs, logged

\* the fields of the AuthSystem object, the localStorage keys it writes, and
\* the instants of the failed logins of each username since its last success
authVars == <<users, currentUser, sessions, lsAuth, failures>>

libraryVars == <<borrowers, transactions, lsBorrowers, lsTransactions, holders>>

\* the entries of the AuditLogger object, the localStorage key 'auditLogs',
\* and the number of entries logged so far
auditVars == <<logs, lsLogs, logged>>

vars == <<now, borrowers, transactions, lsBorrowers, lsTransactions, ret, holders,
          users, currentUser, sessions, lsAuth, failures,
          logs, lsLogs, logged>>

\* ---------------------------------------------------------------- inputs
Insts == {1, 2}
Single == {1}
Books == {"ITEM1", "ITEM2"}
\* the ids a caller can pass: those of the records at hand, and one no record has
\* (every id is an instant, and no instant is negative)
IdsOf(records) == {records[k].id : k \in 1..Len(records)} \cup {-1}
NoSkew == {0}
Names == {<<>>, <<" ">>, <<"A", "d", "a">>}
NoEmail == {<<>>}
\* none, an address, it in capitals, it after a blank, and one the sanitizer rewrites
Emails == {<<>>, <<"a">>, <<"A">>, <<" ", "a">>, <<"&">>}
DefaultLoan == {<<>>}
LoanDaysArgs == {<<>>, <<-1>>, <<0>>, <<1>>}
NoFine == {<<>>}
FineArgs == {<<>>, <<0>>, <<1>>}
ShortLoans == {<<-1>>, <<1>>}
\* daily rates in hundredths: the default, and 0.03
RateArgs == {<<>>, <<3>>}

Last(s) == s[Len(s)]

\* Array.prototype.find: the first of the matching positions, 0 when none matches
FirstOf(matching) ==
    IF matching = {} THEN 0 ELSE CHOOSE k \in matching : \A j \in matching : k <= j

\* ---------------------------------------------------------------- strings
RECURSIVE TrimLeft(_)
TrimLeft(s) == IF s # <<>> /\ Head(s) = " " THEN TrimLeft(Tail(s)) ELSE s

RECURSIVE TrimRight(_)
TrimRight(s) ==
    IF s # <<>> /\ Last(s) = " " THEN TrimRight(SubSeq(s, 1, Len(s) - 1)) ELSE s

trim(s) == TrimRight(TrimLeft(s))

LowerChar(c) == IF c = "A" THEN "a" ELSE IF c = "D" THEN "d" ELSE c

toLowerCase(s) == [k \in 1..Len(s) |-> LowerChar(s[k])]

\* div.textContent = input; div.innerHTML: the HTML serialisation of a text node
EscapeChar(c) ==
    CASE c = "&" -> <<"&", "a", "m", "p", ";">>
      [] c = "<" -> <<"&", "l", "t", ";">>
      [] c = ">" -> <<"&", "g", "t", ";">>
      [] OTHER -> <<c>>

RECURSIVE innerHTML(_)
innerHTML(s) == IF s = <<>> THEN <<>> ELSE EscapeChar(Head(s)) \o innerHTML(Tail(s))

sanitize(input) == trim(innerHTML(input))

\* ------------------------------------------------------------ persistence
parseOrEmpty(item) == IF item = <<>> THEN <<>> ELSE item[1]

saveBorrowers(bs) == <<bs>>

\* Mutation: the ledger is not written.
saveTransactions_nothing(ts) == <<>>

saveTransactions(ts) == <<ts>>

\* what the last call returned: {success, error}, and which method it was
Result(op, success, error) == [op |-> op, success |-> success, error |-> error]

\* ----------------------------------------------- AuthSystem: users and keys
admin == <<"a", "d", "m", "i", "n">>

admin123 == <<"a", "d", "m", "i", "n", "1", "2", "3">>

Usernames == {admin, <<"A", "d", "m", "i", "n">>}

\* the user that register is asked to create, and every username that is used
bob == <<"b", "o", "b">>

bobPassword == <<"a", "d", "m", "i", "n", "1">>

bobEmail == <<"b", "@", "l", ".", "c">>

adminEmail ==
    <<"a", "d", "m", "i", "n", "@", "l", "i", "b", "r", "a", "r", "y", ".", "c", "o", "m">>

AllUsernames == Usernames \cup {bob, <<"b">>}

Passwords == {admin123, <<"x">>}

\* String.prototype.charCodeAt, for the characters of the passwords
charCodeAt(c) ==
    CASE c = "a" -> 97 [] c = "d" -> 100 [] c = "i" -> 105 [] c = "m" -> 109
      [] c = "n" -> 110 [] c = "x" -> 120 [] c = "1" -> 49 [] c = "2" -> 50
      [] c = "3" -> 51 [] OTHER -> 32

\* the largest 32-bit integer; the operators of JavaScript that work on 32-bit
\* integers wrap around it
MaxInt32 == 2147483647

add32(a, b) ==
    IF a >= 0 /\ b >= 0 /\ a > MaxInt32 - b
    THEN (a - MaxInt32 - 1) + (b - MaxInt32 - 1)
    ELSE IF a < 0 /\ b < 0 /\ a < (-MaxInt32 - 1) - b
    THEN (a + MaxInt32 + 1) + (b + MaxInt32 + 1)
    ELSE a + b

sub32(a, b) ==
    IF a >= 0 /\ b < 0 /\ a > MaxInt32 + b
    THEN (a - MaxInt32 - 1) - (b + MaxInt32 + 1)
    ELSE IF a < 0 /\ b > 0 /\ a < (-MaxInt32 - 1) + b
    THEN (a + MaxInt32 + 1) - (b - MaxInt32 - 1)
    ELSE a - b

\* hash << 5
shiftLeft5(h) ==
    LET h2 == add32(h, h)
        h4 == add32(h2, h2)
        h8 == add32(h4, h4)
        h16 == add32(h8, h8)
    IN add32(h16, h16)

\* hash = ((hash << 5) - hash) + char; hash = hash & hash
hashStep(hash, char) == add32(sub32(shiftLeft5(hash), hash), char)

\* the loop of hashPassword: the values of hash, from 0 to the last one
RECURSIVE hashes(_)
hashes(chars) ==
    IF chars = <<>> THEN <<0>>
    ELSE LET before == hashes(SubSeq(chars, 1, Len(chars) - 1))
         IN Append(before, hashStep(Last(before), charCodeAt(Last(chars))))

\* Number.prototype.toString(radix), as the sequence of the digits' values
RECURSIVE digits(_, _)
digits(n, radix) ==
    IF n < radix THEN <<n>> ELSE Append(digits(n \div radix, radix), n % radix)

abs(n) == IF n < 0 THEN -n ELSE n

hashPassword(password) ==
    digits(abs(Last(hashes(password))), 36) \o digits(Len(password), 10)

\* createDefaultAdmin, at the instant given
defaultAdmin(createdAt) ==
    [id |-> "admin-001", username |-> admin, email |-> adminEmail,
     passwordHash |-> <<hashPassword(admin123)>>, role |-> "Admin",
     fullName |-> "System Administrator", createdAt |-> createdAt,
     lastLogin |-> <<>>, isActive |-> TRUE]

\* the localStorage key `failed_attempts_${username.toLowerCase()}`
attemptsKey(username) == <<"failed_attempts_", toLowerCase(username)>>

\* the fixed keys 'users', 'currentUser' and 'sessions'
usersKey == <<"users">>

currentUserKey == <<"currentUser">>

sessionsKey == <<"sessions">>

AuthKeys == {usersKey, currentUserKey, sessionsKey} \cup {attemptsKey(u) : u \in AllUsernames}

\* ------------------------------------------------------------------ state
Init ==
    /\ now = 0
    /\ lsBorrowers = <<>>
    /\ lsTransactions = <<>>
    /\ borrowers = [i \in Insts |-> parseOrEmpty(lsBorrowers)]
    /\ transactions = [i \in Insts |-> parseOrEmpty(lsTransactions)]
    /\ ret = Result("none", TRUE, "")
    /\ holders = [b \in Books |-> {}]
    /\ users = <<defaultAdmin(0)>>
    /\ currentUser = <<>>
    /\ sessions = <<>>
    /\ lsAuth = [k \in AuthKeys |-> IF k = usersKey THEN <<users>> ELSE <<>>]
    /\ failures = [u \in {toLowerCase(n) : n \in AllUsernames} |-> <<>>]
    /\ lsLogs = <<>>
    /\ logs = parseOrEmpty(lsLogs)
    /\ logged = 0

\* new BorrowingSystem(): object i is (re)built from localStorage
constructor(i) ==
    /\ borrowers' = [borrowers EXCEPT ![i] = parseOrEmpty(lsBorrowers)]
    /\ transactions' = [transactions EXCEPT ![i] = parseOrEmpty(lsTransactions)]
    /\ UNCHANGED <<auditVars, authVars, now, lsBorrowers, lsTransactions, ret, holders>>

\* The clock advances between operations.
Tick ==
    /\ now < MaxTime
    /\ now' = now + 1
    /\ UNCHANGED <<auditVars, authVars, borrowers, transactions, lsBorrowers, lsTransactions, ret, holders>>

\* ------------------------------------------------------ registerBorrower
nameMissing(name) == name = <<>> \/ Len(trim(name)) = 0

\* Mutation: the comparison keeps letter case.
emailTaken_caseSensitive(bs, email) ==
    \E k \in 1..Len(bs) : bs[k].email # <<>> /\ bs[k].email = email

emailTaken(bs, email) ==
    \E k \in 1..Len(bs) :
        bs[k].email # <<>> /\ toLowerCase(bs[k].email) = toLowerCase(email)

sanitizeOptional(field) == IF field # <<>> THEN sanitize(field) ELSE <<>>

newBorrower(borrowerData, idInstant, createdAt) ==
    [id |-> idInstant,
     name |-> sanitize(borrowerData.name),
     email |-> sanitizeOptional(borrowerData.email),
     phone |-> sanitizeOptional(borrowerData.phone),
     address |-> sanitizeOptional(borrowerData.address),
     createdAt |-> createdAt]

\* e1: how far the clock moves between Date.now() and new Date()
registerBorrower(i, borrowerData, e1) ==
    IF nameMissing(borrowerData.name)
    THEN /\ e1 = 0
         /\ ret' = Result("registerBorrower", FALSE, "Borrower name is required")
         /\ UNCHANGED <<auditVars, authVars, now, borrowers, transactions, lsBorrowers, lsTransactions, holders>>
    ELSE IF borrowerData.email # <<>> /\ emailTaken(borrowers[i], borrowerData.email)
    THEN /\ e1 = 0
         /\ ret' = Result("registerBorrower", FALSE,
                          "Borrower with this email already exists")
         /\ UNCHANGED <<auditVars, authVars, now, borrowers, transactions, lsBorrowers, lsTransactions, holders>>
    ELSE /\ Len(borrowers[i]) < MaxBorrowers
         /\ now + e1 <= MaxTime
         /\ borrowers' = [borrowers EXCEPT
                             ![i] = Append(@, newBorrower(borrowerData, now, now + e1))]
         /\ lsBorrowers' = saveBorrowers(borrowers'[i])
         /\ now' = now + e1
         /\ ret' = Result("registerBorrower", TRUE, "")
         /\ UNCHANGED <<auditVars, authVars, transactions, lsTransactions, holders>>

\* ---------------------------------------------------------- checkoutBook
findBorrower(bs, borrowerId) == FirstOf({k \in 1..Len(bs) : bs[k].id = borrowerId})

\* Mutation: the status literal misspelt, so no transaction ever matches.
findActiveTransaction_wrongCase(ts, bookId) ==
    FirstOf({k \in 1..Len(ts) : ts[k].bookId = bookId /\ ts[k].status = "active"})

findActiveTransaction(ts, bookId) ==
    FirstOf({k \in 1..Len(ts) : ts[k].bookId = bookId /\ ts[k].status = "Active"})

\* loanDays || this.defaultLoanDays: null, undefined and 0 are all falsy
loanPeriod(loanDays) ==
    IF loanDays = <<>> \/ loanDays[1] = 0 THEN defaultLoanDays ELSE loanDays[1]

\* dueDate.setDate(dueDate.getDate() + days), on a calendar without clock changes
dueDateOf(checkoutDate, loanDays) == checkoutDate + loanPeriod(loanDays) * TicksPerDay

newTransaction(bookId, borrowerId, loanDays, checkoutDate, idInstant, createdAt) ==
    [id |-> idInstant,
     bookId |-> bookId,
     borrowerId |-> borrowerId,
     checkoutDate |-> checkoutDate,
     dueDate |-> dueDateOf(checkoutDate, loanDays),
     returnDate |-> <<>>,
     status |-> "Active",
     fineAmount |-> 0,
     createdAt |-> createdAt]

\* Mutation: the two preconditions tested in the other order.
checkoutError_itemFirst(bs, ts, bookId, borrowerId) ==
    IF findActiveTransaction(ts, bookId) # 0 THEN "This book is already checked out"
    ELSE IF findBorrower(bs, borrowerId) = 0 THEN "Borrower not found"
    ELSE ""

\* Mutation: any transaction of the item, open or closed, blocks a checkout.
checkoutError_everLent(bs, ts, bookId, borrowerId) ==
    IF findBorrower(bs, borrowerId) = 0 THEN "Borrower not found"
    ELSE IF \E k \in 1..Len(ts) : ts[k].bookId = bookId
    THEN "This book is already checked out"
    ELSE ""

\* the preconditions, in the order the method tests them; "" when both pass
checkoutError(bs, ts, bookId, borrowerId) ==
    IF findBorrower(bs, borrowerId) = 0 THEN "Borrower not found"
    ELSE IF findActiveTransaction(ts, bookId) # 0 THEN "This book is already checked out"
    ELSE ""

\* e1, e2: how far the clock moves between new Date(), Date.now() and new Date()
checkoutBook(i, bookId, borrowerId, loanDays, e1, e2) ==
    LET error == checkoutError(borrowers[i], transactions[i], bookId, borrowerId) IN
    IF error # ""
    THEN /\ e1 = 0 /\ e2 = 0
         /\ ret' = Result("checkoutBook", FALSE, error)
         /\ UNCHANGED <<auditVars, authVars, now, borrowers, transactions, lsBorrowers, lsTransactions, holders>>
    ELSE /\ Len(transactions[i]) < MaxTx
         /\ now + e1 + e2 <= MaxTime
         /\ transactions' = [transactions EXCEPT
                ![i] = Append(@, newTransaction(bookId, borrowerId, loanDays,
                                                now, now + e1, now + e1 + e2))]
         /\ lsTransactions' = saveTransactions(transactions'[i])
         /\ now' = now + e1 + e2
         /\ ret' = Result("checkoutBook", TRUE, "")
         /\ holders' = [holders EXCEPT ![bookId] = @ \cup {i}]
         /\ UNCHANGED <<auditVars, authVars, borrowers, lsBorrowers>>

\* ------------------------------------------------------------ returnBook
findTransaction(ts, transactionId) ==
    FirstOf({k \in 1..Len(ts) : ts[k].id = transactionId})

\* Mutation: the status test left out.
notCheckedOut_never(t) == FALSE

notCheckedOut(t) == t.status # "Active"

\* the default parameter value: fineAmount = 0
fineOrDefault(fineAmount) == IF fineAmount = <<>> THEN 0 ELSE fineAmount[1]

\* Mutation: the return instant written to checkoutDate as well.
markReturned_restamps(t, at, fineAmount) ==
    [t EXCEPT !.returnDate = <<at>>, !.checkoutDate = at, !.status = "Returned",
              !.fineAmount = fineAmount]

\* Mutation: the fine argument is dropped.
markReturned_keepsFine(t, at, fineAmount) ==
    [t EXCEPT !.returnDate = <<at>>, !.status = "Returned"]

\* Mutation: the return instant is not recorded.
markReturned_noDate(t, at, fineAmount) ==
    [t EXCEPT !.status = "Returned", !.fineAmount = fineAmount]

markReturned(t, at, fineAmount) ==
    [t EXCEPT !.returnDate = <<at>>, !.status = "Returned", !.fineAmount = fineAmount]

\* Mutation: returnDate is assigned before the status is tested.
returnBook_stampsFirst(i, transactionId, fineAmount) ==
    LET k == findTransaction(transactions[i], transactionId) IN
    IF k = 0
    THEN /\ ret' = Result("returnBook", FALSE, "Transaction not found")
         /\ UNCHANGED <<auditVars, authVars, now, borrowers, transactions, lsBorrowers, lsTransactions, holders>>
    ELSE IF notCheckedOut(transactions[i][k])
    THEN /\ ret' = Result("returnBook", FALSE, "This book is not currently checked out")
         /\ transactions' = [transactions EXCEPT ![i][k].returnDate = <<now>>]
         /\ UNCHANGED <<auditVars, authVars, now, borrowers, lsBorrowers, lsTransactions, holders>>
    ELSE /\ transactions' = [transactions EXCEPT
                ![i][k] = markReturned(@, now, fineOrDefault(fineAmount))]
         /\ lsTransactions' = saveTransactions(transactions'[i])
         /\ ret' = Result("returnBook", TRUE, "")
         /\ holders' = [holders EXCEPT ![transactions[i][k].bookId] = {}]
         /\ UNCHANGED <<auditVars, authVars, now, borrowers, lsBorrowers>>

returnBook(i, transactionId, fineAmount) ==
    LET k == findTransaction(transactions[i], transactionId) IN
    IF k = 0
    THEN /\ ret' = Result("returnBook", FALSE, "Transaction not found")
         /\ UNCHANGED <<auditVars, authVars, now, borrowers, transactions, lsBorrowers, lsTransactions, holders>>
    ELSE IF notCheckedOut(transactions[i][k])
    THEN /\ ret' = Result("returnBook", FALSE, "This book is not currently checked out")
         /\ UNCHANGED <<auditVars, authVars, now, borrowers, transactions, lsBorrowers, lsTransactions, holders>>
    ELSE /\ transactions' = [transactions EXCEPT
                ![i][k] = markReturned(@, now, fineOrDefault(fineAmount))]
         /\ lsTransactions' = saveTransactions(transactions'[i])
         /\ ret' = Result("returnBook", TRUE, "")
         /\ holders' = [holders EXCEPT ![transactions[i][k].bookId] = {}]
         /\ UNCHANGED <<auditVars, authVars, now, borrowers, lsBorrowers>>

\* ---------------------------------------------------------------- queries
\* what a query returned, with the arguments it was given
Answer(op, args, value) ==
    [op |-> op, success |-> TRUE, error |-> "", args |-> args, value |-> value]

\* the same for a query that reads the clock, with the instant it read
AnswerAt(op, args, at, value) ==
    [op |-> op, success |-> TRUE, error |-> "", args |-> args, at |-> at, value |-> value]

\* Mutation: a started day is not counted.
daysOverdue_floor(at, dueDate) == (at - dueDate) \div TicksPerDay

\* Math.ceil((now - dueDate) / (1000 * 60 * 60 * 24)), for now > dueDate
daysOverdue(at, dueDate) ==
    IF (at - dueDate) % TicksPerDay = 0
    THEN (at - dueDate) \div TicksPerDay
    ELSE (at - dueDate) \div TicksPerDay + 1

\* the default parameter value: dailyFine = 0.50
rateOrDefault(dailyFine) == IF dailyFine = <<>> THEN defaultDailyFine ELSE dailyFine[1]

fineFor(ts, transactionId, dailyFine, at) ==
    LET k == findTransaction(ts, transactionId) IN
    IF k = 0 \/ ts[k].status # "Active" THEN 0
    ELSE IF at <= ts[k].dueDate THEN 0
    ELSE daysOverdue(at, ts[k].dueDate) * rateOrDefault(dailyFine)

calculateFine(i, transactionId, dailyFine) ==
    /\ ret' = AnswerAt("calculateFine", <<transactionId, dailyFine>>, now,
                     fineFor(transactions[i], transactionId, dailyFine, now))
    /\ UNCHANGED <<auditVars, authVars, now, borrowers, transactions, lsBorrowers, lsTransactions, holders>>

isActiveOf(t, bookId) == t.bookId = bookId /\ t.status = "Active"

activeOf(ts, bookId) == SelectSeq(ts, LAMBDA t : isActiveOf(t, bookId))

getActiveTransactionsOf(i, bookId) ==
    /\ ret' = Answer("getActiveTransactions", <<bookId>>, activeOf(transactions[i], bookId))
    /\ UNCHANGED <<auditVars, authVars, now, borrowers, transactions, lsBorrowers, lsTransactions, holders>>

\* Mutation: the comparison admits the due instant itself.
isOverdue_atDue(t, at) == t.status = "Active" /\ t.dueDate <= at

isOverdue(t, at) == IF t.status # "Active" THEN FALSE ELSE t.dueDate < at

overdueAt(ts, at) == SelectSeq(ts, LAMBDA t : isOverdue(t, at))

getOverdueBooks(i) ==
    /\ ret' = AnswerAt("getOverdueBooks", <<>>, now, overdueAt(transactions[i], now))
    /\ UNCHANGED <<auditVars, authVars, now, borrowers, transactions, lsBorrowers, lsTransactions, holders>>

\* Mutation: ascending instead of descending.
comesBefore_oldestFirst(a, b) == a.createdAt - b.createdAt < 0

\* the comparator (a, b) => new Date(b.createdAt) - new Date(a.createdAt) is
\* negative: a is placed before b
comesBefore(a, b) == b.createdAt - a.createdAt < 0

\* Array.prototype.sort is stable: an element goes after the ones it does not
\* come before, in front of the first one it comes before
RECURSIVE insertSorted(_, _)
insertSorted(sorted, x) ==
    IF sorted = <<>> THEN <<x>>
    ELSE IF comesBefore(x, Head(sorted)) THEN <<x>> \o sorted
    ELSE <<Head(sorted)>> \o insertSorted(Tail(sorted), x)

RECURSIVE sort(_)
sort(s) == IF s = <<>> THEN <<>> ELSE insertSorted(sort(SubSeq(s, 1, Len(s) - 1)), Last(s))

transactionsOf(ts, borrowerId) == sort(SelectSeq(ts, LAMBDA t : t.borrowerId = borrowerId))

\* Mutation: the ledger itself is sorted, not the filtered copy.
getBorrowerTransactions_sortsLedger(i, borrowerId) ==
    /\ ret' = Answer("getBorrowerTransactions", <<borrowerId>>,
                     transactionsOf(transactions[i], borrowerId))
    /\ transactions' = [transactions EXCEPT ![i] = sort(@)]
    /\ UNCHANGED <<auditVars, authVars, now, borrowers, lsBorrowers, lsTransactions, holders>>

getBorrowerTransactions(i, borrowerId) ==
    /\ ret' = Answer("getBorrowerTransactions", <<borrowerId>>,
                     transactionsOf(transactions[i], borrowerId))
    /\ UNCHANGED <<auditVars, authVars, now, borrowers, transactions, lsBorrowers, lsTransactions, holders>>

\* find(...) || null
borrowerOrNull(bs, borrowerId) ==
    IF findBorrower(bs, borrowerId) = 0 THEN <<>> ELSE <<bs[findBorrower(bs, borrowerId)]>>

getBorrower(i, borrowerId) ==
    /\ ret' = Answer("getBorrower", <<borrowerId>>, borrowerOrNull(borrowers[i], borrowerId))
    /\ UNCHANGED <<auditVars, authVars, now, borrowers, transactions, lsBorrowers, lsTransactions, holders>>

getAllBorrowers(i) ==
    /\ ret' = Answer("getAllBorrowers", <<>>, borrowers[i])
    /\ UNCHANGED <<auditVars, authVars, now, borrowers, transactions, lsBorrowers, lsTransactions, holders>>

\* The clock advances between operations, as far as the horizon given.
Elapse(horizon) ==
    /\ now < horizon
    /\ now' = now + 1
    /\ UNCHANGED <<auditVars, authVars, borrowers, transactions, lsBorrowers, lsTransactions, ret, holders>>


\* ------------------------------------------------------ AuthSystem.login
\* JSON.parse(localStorage.getItem(key) || '[]')
storedAttempts(store, username) == parseOrEmpty(store[attemptsKey(username)])

\* attempts.filter(time => Date.now() - time < this.lockoutDuration)
recentAttempts(attempts, at) == SelectSeq(attempts, LAMBDA time : at - time < lockoutDuration)

\* Math.min(...recentAttempts)
min(s) == CHOOSE m \in {s[k] : k \in 1..Len(s)} : \A k \in 1..Len(s) : m <= s[k]

checkLockout(store, username, at) ==
    LET recent == recentAttempts(storedAttempts(store, username), at) IN
    IF Len(recent) >= maxLoginAttempts
    THEN [locked |-> lockoutDuration - (at - min(recent)) > 0,
          remaining |-> lockoutDuration - (at - min(recent))]
    ELSE [locked |-> FALSE, remaining |-> 0]

recordFailedAttempt(store, username, at) ==
    [store EXCEPT ![attemptsKey(username)] =
        <<recentAttempts(Append(storedAttempts(store, username), at), at)>>]

\* Math.ceil(lockout.remaining / 60000)
minutesLeft(remaining) ==
    (remaining * lockoutMinutes + TicksPerLockout - 1) \div TicksPerLockout

\* { success: false, error: `Account locked. Try again in ${...} minutes` }
Locked(remaining) ==
    [op |-> "login", success |-> FALSE,
     error |-> "Account locked. Try again in ${minutes} minutes",
     minutes |-> minutesLeft(remaining)]

findUser(us, username) ==
    FirstOf({k \in 1..Len(us) :
                toLowerCase(us[k].username) = toLowerCase(username) /\ us[k].isActive})

newSession(userId, at) ==
    [id |-> <<"session-", at>>, userId |-> userId, startTime |-> at,
     lastActivity |-> at, endTime |-> <<>>]

\* the first maxLoginAttempts failed logins of a username since its last success
noteFailure(history, at) ==
    IF Len(history) < maxLoginAttempts THEN Append(history, at) ELSE history

\* { ...user, passwordHash: undefined }
withoutHash(user) == [user EXCEPT !.passwordHash = <<>>]

\* Mutation: an attempt made during the lockout is recorded like a failed one.
loginRefused_recorded(username, lockout) ==
    /\ ret' = Locked(lockout.remaining)
    /\ lsAuth' = recordFailedAttempt(lsAuth, username, now)
    /\ UNCHANGED <<auditVars, now, libraryVars, users, currentUser, sessions, failures>>

\* login's return while the username is locked out
loginRefused(username, lockout) ==
    /\ ret' = Locked(lockout.remaining)
    /\ UNCHANGED <<auditVars, now, libraryVars, authVars>>

login(username, password) ==
    LET lockout == checkLockout(lsAuth, username, now)
        k == findUser(users, username)
    IN
    IF lockout.locked
    THEN loginRefused(username, lockout)
    ELSE IF k = 0 \/ users[k].passwordHash # <<hashPassword(password)>>
    THEN /\ lsAuth' = recordFailedAttempt(lsAuth, username, now)
         /\ failures' = [failures EXCEPT ![toLowerCase(username)] = noteFailure(@, now)]
         /\ ret' = Result("login", FALSE, "Invalid username or password")
         /\ UNCHANGED <<auditVars, now, libraryVars, users, currentUser, sessions>>
    ELSE /\ Len(sessions) < MaxSessions
         /\ users' = [users EXCEPT ![k].lastLogin = <<now>>]
         /\ currentUser' = <<withoutHash(users'[k])>>
         /\ sessions' = Append(sessions, newSession(users[k].id, now))
         /\ lsAuth' = [lsAuth EXCEPT ![usersKey] = <<users'>>,
                                     ![currentUserKey] = <<currentUser'>>,
                                     ![attemptsKey(username)] = <<>>,
                                     ![sessionsKey] = <<sessions'>>]
         /\ failures' = [failures EXCEPT ![toLowerCase(username)] = <<>>]
         /\ ret' = Result("login", TRUE, "")
         /\ UNCHANGED <<auditVars, now, libraryVars>>

\* ------------------------------------------- AuthSystem: users and roles
\* /^[^\s@]+@[^\s@]+\.[^\s@]+$/ : no blank, one "@" after at least one
\* character, and after it a "." with a character on each side
validateEmail(email) ==
    /\ \A k \in 1..Len(email) : email[k] # " "
    /\ \E a \in 2..Len(email) :
          /\ email[a] = "@"
          /\ \A k \in 1..Len(email) : email[k] = "@" => k = a
          /\ \E d \in (a + 2)..(Len(email) - 1) : email[d] = "."

usernameTaken(us, username) ==
    \E k \in 1..Len(us) : toLowerCase(us[k].username) = toLowerCase(username)

userEmailTaken(us, email) ==
    \E k \in 1..Len(us) : toLowerCase(us[k].email) = toLowerCase(email)

\* the role a new user gets: allowedRoles.includes(userData.role), or 'Member'
grantedRole(role) == IF role \in {"Librarian", "Member"} THEN role ELSE "Member"

newUser(userData, at) ==
    [id |-> "user-" \o ToString(at),
     username |-> sanitize(userData.username),
     email |-> sanitize(userData.email),
     passwordHash |-> <<hashPassword(userData.password)>>,
     role |-> grantedRole(userData.role),
     fullName |-> "",
     createdAt |-> at, lastLogin |-> <<>>, isActive |-> TRUE]

registerError(us, userData) ==
    IF Len(trim(userData.username)) < 3
    THEN "Username must be at least 3 characters"
    ELSE IF Len(userData.password) < 6
    THEN "Password must be at least 6 characters"
    ELSE IF userData.email = <<>> \/ ~validateEmail(userData.email)
    THEN "Valid email is required"
    ELSE IF usernameTaken(us, userData.username)
    THEN "Username already exists"
    ELSE IF userEmailTaken(us, userData.email)
    THEN "Email already exists"
    ELSE ""

register(userData) ==
    LET error == registerError(users, userData) IN
    IF error # ""
    THEN /\ ret' = Result("register", FALSE, error)
         /\ UNCHANGED <<auditVars, now, libraryVars, authVars>>
    ELSE /\ Len(users) < MaxUsers
         /\ users' = Append(users, newUser(userData, now))
         /\ lsAuth' = [lsAuth EXCEPT ![usersKey] = <<users'>>]
         /\ ret' = Result("register", TRUE, "")
         /\ UNCHANGED <<auditVars, now, libraryVars, currentUser, sessions, failures>>

\* endSession: the first session of the user that has no endTime is closed
openSession(ss, userId) ==
    FirstOf({k \in 1..Len(ss) : ss[k].userId = userId /\ ss[k].endTime = <<>>})

endSession(ss, userId, at) ==
    IF openSession(ss, userId) = 0 THEN ss
    ELSE [ss EXCEPT ![openSession(ss, userId)].endTime = <<at>>]

logout ==
    /\ sessions' = IF currentUser # <<>>
                   THEN endSession(sessions, currentUser[1].id, now) ELSE sessions
    /\ currentUser' = <<>>
    /\ lsAuth' = [lsAuth EXCEPT
                    ![sessionsKey] = IF sessions' # sessions THEN <<sessions'>> ELSE @,
                    ![currentUserKey] = <<>>]
    /\ ret' = Result("logout", TRUE, "")
    /\ UNCHANGED <<auditVars, now, libraryVars, users, failures>>

roleHierarchy(role) ==
    CASE role = "Member" -> 1 [] role = "Librarian" -> 2 [] role = "Admin" -> 3
      [] OTHER -> 0

hasRoleOf(user, requiredRole) ==
    /\ user # <<>>
    /\ roleHierarchy(user[1].role) >= roleHierarchy(requiredRole)

permissions(role) ==
    CASE role = "Admin" -> {"all"}
      [] role = "Librarian" -> {"view", "add", "edit", "delete", "borrow", "return",
                                "manage_borrowers", "export", "import"}
      [] role = "Member" -> {"view", "search", "borrow"}
      [] OTHER -> {}

hasPermissionOf(user, action) ==
    /\ user # <<>>
    /\ ("all" \in permissions(user[1].role) \/ action \in permissions(user[1].role))

hasRole(requiredRole) ==
    /\ ret' = Answer("hasRole", <<requiredRole>>, hasRoleOf(currentUser, requiredRole))
    /\ UNCHANGED <<auditVars, now, libraryVars, authVars>>

hasPermission(action) ==
    /\ ret' = Answer("hasPermission", <<action>>, hasPermissionOf(currentUser, action))
    /\ UNCHANGED <<auditVars, now, libraryVars, authVars>>

findUserById(us, userId) == FirstOf({k \in 1..Len(us) : us[k].id = userId})

updateUserRole(userId, newRole) ==
    LET k == findUserById(users, userId) IN
    IF ~hasRoleOf(currentUser, "Admin")
    THEN /\ ret' = Result("updateUserRole", FALSE, "Insufficient permissions")
         /\ UNCHANGED <<auditVars, now, libraryVars, authVars>>
    ELSE IF k = 0
    THEN /\ ret' = Result("updateUserRole", FALSE, "User not found")
         /\ UNCHANGED <<auditVars, now, libraryVars, authVars>>
    ELSE IF newRole \notin {"Admin", "Librarian", "Member"}
    THEN /\ ret' = Result("updateUserRole", FALSE, "Invalid role")
         /\ UNCHANGED <<auditVars, now, libraryVars, authVars>>
    ELSE /\ users' = [users EXCEPT ![k].role = newRole]
         /\ lsAuth' = [lsAuth EXCEPT ![usersKey] = <<users'>>]
         /\ ret' = Result("updateUserRole", TRUE, "")
         /\ UNCHANGED <<auditVars, now, libraryVars, currentUser, sessions, failures>>

\* ------------------------------------------------------------- AuditLogger
\* logs.slice(-n): the last n entries, all of them when there are fewer
sliceLast(entries, n) ==
    IF Len(entries) <= n THEN entries
    ELSE SubSeq(entries, Len(entries) - n + 1, Len(entries))

sliceFirst(entries, n) ==
    IF Len(entries) <= n THEN entries ELSE SubSeq(entries, 1, n)

logEntry(action, entityType, entityId, details, at) ==
    [id |-> at, timestamp |-> at, action |-> action, entityType |-> entityType,
     entityId |-> entityId, details |-> details,
     userAgent |-> "userAgent", url |-> "href"]

rotated_keepsOldest(entries) ==
    IF Len(entries) > maxLogs THEN sliceFirst(entries, maxLogs) ELSE entries

\* log's "keep only the last maxLogs entries"
rotated(entries) ==
    IF Len(entries) > maxLogs THEN sliceLast(entries, maxLogs) ELSE entries

\* saveLogs: fits tells whether localStorage takes the entries, fitsCut whether
\* it takes the last fullStoreLogs of them after a QuotaExceededError. The
\* second setItem is outside any try: its exception leaves the store as it was
\* (store is <<>> then, <<v>> when v was written).
saveLogs(entries, fits, fitsCut) ==
    IF fits THEN [logs |-> entries, store |-> <<<<entries>>>>, thrown |-> FALSE]
    ELSE LET cut == sliceLast(entries, fullStoreLogs)
         IN  [logs |-> cut,
              store |-> IF fitsCut THEN <<<<cut>>>> ELSE <<>>,
              thrown |-> ~fitsCut]

log(action, entityType, entityId, details, fits, fitsCut) ==
    LET pushed == Append(logs, logEntry(action, entityType, entityId, details, now))
        saved == saveLogs(rotated(pushed), fits, fitsCut)
    IN  /\ logged < MaxLogged
        /\ logs' = saved.logs
        /\ lsLogs' = IF saved.store = <<>> THEN lsLogs ELSE saved.store[1]
        /\ logged' = logged + 1
        /\ ret' = IF saved.thrown THEN Result("log", FALSE, "QuotaExceededError")
                  ELSE Result("log", TRUE, "")
        /\ UNCHANGED <<now, libraryVars, authVars>>

\* --------------------------------------------------------- specifications
BorrowerInputs ==
    [name : Names, email : NoEmail, phone : {<<>>}, address : {<<>>}]

Ada == [name |-> <<"A", "d", "a">>, email |-> <<>>, phone |-> <<>>, address |-> <<>>]

\* The calls made on the objects in I, with the loan periods and fines given.
Step(I, items, people, loanArgs, fineArgs) ==
    \/ Tick
    \/ \E i \in I : constructor(i)
    \/ \E i \in I, d \in people, e1 \in NoSkew : registerBorrower(i, d, e1)
    \/ \E i \in I, b \in items, d \in loanArgs, e1, e2 \in NoSkew :
          \E br \in IdsOf(borrowers[i]) : checkoutBook(i, b, br, d, e1, e2)
    \/ \E i \in I, f \in fineArgs :
          \E id \in IdsOf(transactions[i]) : returnBook(i, id, f)

\* One BorrowingSystem object over the store, every loan on the default period.
Next == Step(Single, Books, BorrowerInputs, DefaultLoan, FineArgs)

Spec == Init /\ [][Next]_vars

\* One object, every loan period a caller can pass.
NextLoan == Step(Single, Books, BorrowerInputs, LoanDaysArgs, FineArgs)

SpecLoan == Init /\ [][NextLoan]_vars

\* Two objects (two pages of the application) over the one store, one item.
NextTwo == Step(Insts, {"ITEM1"}, {Ada}, DefaultLoan, NoFine)

SpecTwo == Init /\ [][NextTwo]_vars

\* The queries of the objects in I.
Ask(I, rates) ==
    \/ \E i \in I, r \in rates : \E id \in IdsOf(transactions[i]) : calculateFine(i, id, r)
    \/ \E i \in I, b \in Books : getActiveTransactionsOf(i, b)
    \/ \E i \in I : getOverdueBooks(i)
    \/ \E i \in I : \E br \in IdsOf(borrowers[i]) : getBorrowerTransactions(i, br)
    \/ \E i \in I : \E br \in IdsOf(borrowers[i]) : getBorrower(i, br)
    \/ \E i \in I : getAllBorrowers(i)

\* One object and one borrower, loans of one day forward and one day back, the
\* queries, and a clock that runs past the due dates.
NextRead ==
    \/ Elapse(ReadHorizon)
    \/ borrowers[1] = <<>> /\ registerBorrower(1, Ada, 0)
    \/ \E b \in Books, d \in ShortLoans :
          \E br \in IdsOf(borrowers[1]) : checkoutBook(1, b, br, d, 0, 0)
    \/ \E id \in IdsOf(transactions[1]) : returnBook(1, id, <<>>)
    \/ Ask(Single, RateArgs)

SpecRead == Init /\ [][NextRead]_vars

\* One object on default loans, with the loan history of a borrower asked for.
NextHistory ==
    \/ Step(Single, Books, {Ada}, DefaultLoan, NoFine)
    \/ \E br \in IdsOf(borrowers[1]) : getBorrowerTransactions(1, br)

SpecHistory == Init /\ [][NextHistory]_vars

\* One object, borrowers registered with and without e-mail addresses.
RegistrationInputs ==
    [name : Names, email : Emails, phone : {<<>>}, address : {<<>>}]

NextRegister ==
    \/ Tick
    \/ \E d \in RegistrationInputs : registerBorrower(1, d, 0)

SpecRegister == Init /\ [][NextRegister]_vars

\* The AuthSystem object of a page: logins under the default administrator's
\* name, with the right password and a wrong one, as the clock runs.
NextAuth ==
    \/ Elapse(AuthHorizon)
    \/ \E u \in Usernames, p \in Passwords : login(u, p)

SpecAuth == Init /\ [][NextAuth]_vars

\* The audit log of one page: entries are numbered in entityId as they are
\* logged; a write may fail for lack of room once the log is longer than
\* StoreRoom entries, and then the shorter write may fail as well.
Fits(n) == IF n <= StoreRoom THEN {TRUE} ELSE BOOLEAN

NextAudit ==
    \E fits \in Fits(Len(rotated(Append(logs, 0)))) :
       \E fitsCut \in IF fits THEN {TRUE} ELSE BOOLEAN :
          log("CREATE", "BOOK", logged + 1, <<>>, fits, fitsCut)

SpecAudit == Init /\ [][NextAudit]_vars


\* One page that registers users, logs in and out, changes roles and asks for
\* roles and permissions, at one instant.
Bob(role) == [username |-> bob, password |-> bobPassword, email |-> bobEmail, role |-> role]

\* bob in each role, and one input for each refusal of register
UserData ==
    {Bob(r) : r \in {"Admin", "Librarian", "Member"}}
      \cup {[Bob("Member") EXCEPT !.username = <<"b">>],
            [Bob("Member") EXCEPT !.password = <<"x">>],
            [Bob("Member") EXCEPT !.email = <<"b">>],
            [Bob("Member") EXCEPT !.username = <<"A", "d", "m", "i", "n">>],
            [Bob("Member") EXCEPT !.email = adminEmail]}

Logins == {<<admin, admin123>>, <<bob, bobPassword>>, <<bob, admin123>>}

Roles == {"Admin", "Librarian", "Member", "Guest"}

UserIds == {users[k].id : k \in 1..Len(users)} \cup {"user-none"}

PermissionNames == {"view", "search", "borrow", "edit", "all"}

NextUsers ==
    \/ \E d \in UserData : register(d)
    \/ \E l \in Logins : login(l[1], l[2])
    \/ logout
    \/ \E id \in UserIds, r \in Roles : updateUserRole(id, r)
    \/ \E r \in Roles : hasRole(r)
    \/ \E a \in PermissionNames : hasPermission(a)

SpecUsers == Init /\ [][NextUsers]_vars

\* One object whose clock may advance between the clock reads of a checkout.
Skews == {0, 1}

NextClock ==
    \/ Tick
    \/ borrowers[1] = <<>> /\ registerBorrower(1, Ada, 0)
    \/ \E b \in Books, e1, e2 \in Skews :
          \E br \in IdsOf(borrowers[1]) : checkoutBook(1, b, br, <<>>, e1, e2)
    \/ \E id \in IdsOf(transactions[1]) : returnBook(1, id, <<>>)

SpecClock == Init /\ [][NextClock]_vars

\* The logins of one page whose clock keeps running: time passes (weak
\* fairness of the clock), and passwords are mistaken only while the clock can
\* still run to the end of the lockout they may start.
NextAuthFair ==
    \/ Elapse(AuthHorizon)
    \/ \E u \in Usernames, p \in Passwords :
          /\ p = admin123 \/ now + lockoutDuration <= AuthHorizon
          /\ login(u, p)

SpecAuthFair == Init /\ [][NextAuthFair]_vars /\ WF_vars(Elapse(AuthHorizon))

\* ----------------------------------------------------------------- claims
\* the ledger and directory of the one object of Spec and SpecLoan
ledger == transactions[1]

directory == borrowers[1]

\* getActiveTransactions(bookId), as positions in the ledger
getActiveTransactions(ts, bookId) ==
    {k \in 1..Len(ts) : ts[k].bookId = bookId /\ ts[k].status = "Active"}

Returned(ts) == {k \in 1..Len(ts) : ts[k].status = "Returned"}

\* a step of the one object that is a call of checkoutBook / returnBook
CheckoutCall(b, br, d) == checkoutBook(1, b, br, d, 0, 0)

ReturnCall(id, f) == returnBook(1, id, f)

AnyCheckoutCall ==
    /\ ret'.op = "checkoutBook"
    /\ \E b \in Books, d \in LoanDaysArgs : \E br \in IdsOf(directory) :
          CheckoutCall(b, br, d)

AnyReturnCall ==
    /\ ret'.op = "returnBook"
    /\ \E f \in FineArgs : \E id \in IdsOf(ledger) : ReturnCall(id, f)

\* C1: on one object started from an empty ledger, every item has at most one
\* transaction with status Active, after any sequence of calls.
C1_OneActivePerItem ==
    \A b \in Books : Cardinality(getActiveTransactions(ledger, b)) <= 1

\* an item lent, returned and lent again, and a further checkout of it refused
C1_Witness ==
    /\ ret = Result("checkoutBook", FALSE, "This book is already checked out")
    /\ \E b \in Books :
          /\ getActiveTransactions(ledger, b) # {}
          /\ \E k \in Returned(ledger) : ledger[k].bookId = b

\* C2: two checkouts of one item attempted through two objects that loaded the
\* same store are never both granted: no item is held through two objects at once.
C2_OneGrantPerItem == \A b \in Books : Cardinality(holders[b]) <= 1

\* C3: a transaction is created Active; its status changes only from Active to
\* Returned and only in a successful returnBook; no step removes a transaction,
\* reopens one, or changes its id, bookId, borrowerId, checkoutDate, dueDate or
\* createdAt.
C3_Lifecycle ==
    [][ /\ Len(ledger') >= Len(ledger)
        /\ \A k \in 1..Len(ledger) :
              /\ ledger'[k].id = ledger[k].id
              /\ ledger'[k].bookId = ledger[k].bookId
              /\ ledger'[k].borrowerId = ledger[k].borrowerId
              /\ ledger'[k].checkoutDate = ledger[k].checkoutDate
              /\ ledger'[k].dueDate = ledger[k].dueDate
              /\ ledger'[k].createdAt = ledger[k].createdAt
              /\ ledger'[k].status # ledger[k].status =>
                    /\ ledger[k].status = "Active"
                    /\ ledger'[k].status = "Returned"
                    /\ AnyReturnCall
                    /\ ret'.success
        /\ \A k \in (Len(ledger) + 1)..Len(ledger') : ledger'[k].status = "Active"
      ]_vars

\* a returned loan followed in the ledger by an open one
C3_Witness ==
    /\ Len(ledger) = 2
    /\ ledger[1].status = "Returned"
    /\ ledger[2].status = "Active"

\* C4: a returnBook call with the id of a Returned transaction fails with the
\* not-active error and leaves that transaction's returnDate and fineAmount as
\* they were, whatever fine the call supplies.
C4_ReturnedIsTerminal ==
    [][ ret'.op = "returnBook" =>
           \A f \in FineArgs : \A id \in IdsOf(ledger) :
              ((\E k \in Returned(ledger) : ledger[k].id = id) /\ ReturnCall(id, f))
              => /\ ret' = Result("returnBook", FALSE, "This book is not currently checked out")
                 /\ \A k \in Returned(ledger) :
                       ledger[k].id = id =>
                          /\ ledger'[k].returnDate = ledger[k].returnDate
                          /\ ledger'[k].fineAmount = ledger[k].fineAmount
      ]_vars

\* a second return refused, of a loan whose first return recorded a fine, later
C4_Witness ==
    /\ ret = Result("returnBook", FALSE, "This book is not currently checked out")
    /\ \E k \in Returned(ledger) : ledger[k].fineAmount = 1 /\ ledger[k].returnDate[1] < now

\* C5: a failing checkoutBook and a failing returnBook leave the ledger as it
\* was, in memory and in the store.
C5_FailureChangesNothing ==
    [][ (~ret'.success /\ (AnyCheckoutCall \/ AnyReturnCall))
           => /\ transactions' = transactions
              /\ lsTransactions' = lsTransactions
      ]_vars

\* a return refused for an unknown id while the ledger holds a loan
C5_Witness ==
    /\ ret = Result("returnBook", FALSE, "Transaction not found")
    /\ Len(ledger) > 0
    /\ lsTransactions = <<ledger>>

\* C6: checkoutBook tests the borrower first: with an unknown borrower the error
\* is the borrower-not-found one even when the item is on loan, and the
\* already-checked-out error comes only with a known borrower and an Active
\* transaction of the item.
C6_BorrowerCheckedFirst ==
    [][ ret'.op = "checkoutBook" =>
           \A b \in Books, d \in LoanDaysArgs : \A br \in IdsOf(directory) :
              CheckoutCall(b, br, d) =>
                 /\ (\A k \in 1..Len(directory) : directory[k].id # br)
                       => ret' = Result("checkoutBook", FALSE, "Borrower not found")
                 /\ ret'.error = "This book is already checked out"
                       => /\ \E k \in 1..Len(directory) : directory[k].id = br
                          /\ getActiveTransactions(ledger, b) # {}
      ]_vars

\* borrower-not-found answered while every item is on loan
C6_Witness ==
    /\ ret = Result("checkoutBook", FALSE, "Borrower not found")
    /\ \A b \in Books : getActiveTransactions(ledger, b) # {}

\* C7: a successful checkoutBook(item, borrower, d) at instant T creates a
\* transaction with checkoutDate = T and dueDate = T + d days for every supplied
\* d >= 0, 0 included, and T + 14 days when no period is supplied.
C7_DueDateAsSupplied ==
    [][ \A b \in Books, d \in LoanDaysArgs : \A br \in IdsOf(directory) :
           (ret' = Result("checkoutBook", TRUE, "") /\ (d = <<>> \/ d[1] >= 0)
              /\ CheckoutCall(b, br, d))
           => /\ Last(ledger').checkoutDate = now
              /\ Last(ledger').dueDate =
                    now + (IF d = <<>> THEN defaultLoanDays ELSE d[1]) * TicksPerDay
      ]_vars

\* C8: every transaction in the ledger has dueDate at or after its
\* checkoutDate, whatever loanDays its checkout was given.
C8_DueNotBeforeCheckout ==
    \A k \in 1..Len(ledger) : ledger[k].dueDate >= ledger[k].checkoutDate

\* C9: fineAmount is 0 while a transaction is Active; the successful returnBook
\* sets it to the fine supplied (0 when none is); no later step changes it.
C9_FineFixedAtReturn ==
    [][ /\ \A k \in 1..Len(ledger') :
              ledger'[k].status = "Active" => ledger'[k].fineAmount = 0
        /\ \A k \in Returned(ledger') \ Returned(ledger) :
              \A f \in FineArgs : \A id \in IdsOf(ledger) :
                 ReturnCall(id, f) =>
                    ledger'[k].fineAmount = (IF f = <<>> THEN 0 ELSE f[1])
        /\ \A k \in Returned(ledger) : ledger'[k].fineAmount = ledger[k].fineAmount
      ]_vars

\* a fine recorded at return, and a later checkout after the clock moved on
C9_Witness ==
    /\ ret = Result("checkoutBook", TRUE, "")
    /\ \E k \in Returned(ledger) :
          /\ ledger[k].fineAmount = 1
          /\ ledger[k].returnDate[1] < Last(ledger).checkoutDate

\* C10: returnDate is null exactly while the status is Active; the successful
\* returnBook sets it to the current instant, which is at or after
\* checkoutDate; no later step changes it.
C10_ReturnDateSetOnce ==
    [][ /\ \A k \in 1..Len(ledger') :
              (ledger'[k].returnDate = <<>>) <=> (ledger'[k].status = "Active")
        /\ \A k \in Returned(ledger') \ Returned(ledger) :
              /\ ledger'[k].returnDate = <<now>>
              /\ now >= ledger'[k].checkoutDate
        /\ \A k \in Returned(ledger) : ledger'[k].returnDate = ledger[k].returnDate
      ]_vars

\* a loan returned at a later instant than it was checked out
C10_Witness ==
    \E k \in Returned(ledger) : ledger[k].returnDate[1] > ledger[k].checkoutDate

\* the transaction an id denotes: the first in the ledger that carries it
Denoted(ts, id) == FirstOf({k \in 1..Len(ts) : ts[k].id = id})

\* C11: calculateFine(id, r) returns 0 when no transaction has that id, when the
\* transaction is not Active, or when now is at or before its dueDate; otherwise
\* it returns r for every started day past dueDate: r up to one day late, 2r
\* just beyond one day.
C11_FinePerStartedDay ==
    ret.op = "calculateFine" =>
       LET k == Denoted(ledger, ret.args[1])
           r == IF ret.args[2] = <<>> THEN defaultDailyFine ELSE ret.args[2][1]
       IN IF k = 0 THEN ret.value = 0
          ELSE LET late == ret.at - ledger[k].dueDate IN
               IF ledger[k].status # "Active" \/ late <= 0 THEN ret.value = 0
               ELSE /\ \E n \in 1..(late + 1) :
                          /\ (n - 1) * TicksPerDay < late
                          /\ late <= n * TicksPerDay
                          /\ ret.value = n * r
                    /\ late <= TicksPerDay => ret.value = r
                    /\ late = TicksPerDay + 1 => ret.value = 2 * r

\* a fine of one daily rate for a loan that is less than a day late
C11_Witness ==
    /\ ret.op = "calculateFine"
    /\ ret.at = now
    /\ ret.value = defaultDailyFine
    /\ \E k \in 1..Len(ledger) :
          /\ ledger[k].id = ret.args[1]
          /\ ledger[k].status = "Active"
          /\ now - ledger[k].dueDate \in 1..(TicksPerDay - 1)

\* a step of the one object that is a call of one of the queries, with the
\* arguments its answer records
AnyQuery ==
    \/ ret'.op = "calculateFine" /\ calculateFine(1, ret'.args[1], ret'.args[2])
    \/ ret'.op = "getActiveTransactions" /\ getActiveTransactionsOf(1, ret'.args[1])
    \/ ret'.op = "getOverdueBooks" /\ getOverdueBooks(1)
    \/ ret'.op = "getBorrowerTransactions" /\ getBorrowerTransactions(1, ret'.args[1])
    \/ ret'.op = "getBorrower" /\ getBorrower(1, ret'.args[1])
    \/ ret'.op = "getAllBorrowers" /\ getAllBorrowers(1)

\* C12: calculateFine, getActiveTransactions, getBorrowerTransactions,
\* getOverdueBooks, getBorrower and getAllBorrowers leave the ledger, the order
\* of its transactions included, and the borrower directory as they were, in
\* memory and in the store.
C12_QueriesChangeNothing ==
    [][ AnyQuery => /\ transactions' = transactions
                    /\ borrowers' = borrowers
                    /\ lsTransactions' = lsTransactions
                    /\ lsBorrowers' = lsBorrowers
      ]_vars

\* a borrower's two loans answered newest first, the ledger still oldest first
C12_Witness ==
    /\ ret.op = "getBorrowerTransactions"
    /\ Len(ledger) = 2
    /\ ledger[1].createdAt < ledger[2].createdAt
    /\ ret.value = <<ledger[2], ledger[1]>>

\* C13: getOverdueBooks at instant now returns exactly the transactions that are
\* Active with dueDate strictly before now: one due at now is left out, and so
\* is every Returned one, however late.
C13_OverdueExactly ==
    ret.op = "getOverdueBooks" =>
       LET late == {k \in 1..Len(ledger) :
                       ledger[k].status = "Active" /\ ledger[k].dueDate < ret.at}
       IN /\ \A k \in 1..Len(ledger) :
                (\E j \in 1..Len(ret.value) : ret.value[j] = ledger[k]) <=> k \in late
          /\ \A j \in 1..Len(ret.value) : \E k \in late : ret.value[j] = ledger[k]
          /\ Len(ret.value) = Cardinality(late)

\* one loan past due answered, and one due at this very instant left out
C13_Witness ==
    /\ ret.op = "getOverdueBooks"
    /\ ret.at = now
    /\ Len(ret.value) = 1
    /\ \E k \in 1..Len(ledger) : ledger[k].status = "Active" /\ ledger[k].dueDate = now

\* how many times the record t occurs in the sequence s
Occurrences(s, t) == Cardinality({k \in 1..Len(s) : s[k] = t})

\* C14: getBorrowerTransactions(b) returns every transaction whose borrowerId is
\* b and no other, ordered by createdAt descending: of two consecutive results
\* the earlier one's createdAt is at or after the later one's.
C14_HistoryNewestFirst ==
    ret.op = "getBorrowerTransactions" =>
       /\ \A k \in 1..Len(ledger) :
             Occurrences(ret.value, ledger[k]) =
                IF ledger[k].borrowerId = ret.args[1]
                THEN Occurrences(ledger, ledger[k]) ELSE 0
       /\ \A j \in 1..Len(ret.value) : \E k \in 1..Len(ledger) : ret.value[j] = ledger[k]
       /\ \A j \in 1..(Len(ret.value) - 1) :
             ret.value[j].createdAt >= ret.value[j + 1].createdAt

\* two loans of one borrower, taken at different instants, answered newest first
C14_Witness ==
    /\ ret.op = "getBorrowerTransactions"
    /\ Len(ret.value) = 2
    /\ ret.value[1].createdAt > ret.value[2].createdAt
    /\ Len(directory) = 2

\* C15: for an existing borrower, checkoutBook of an item succeeds exactly when
\* the item has no Active transaction: while its loan is Active every further
\* checkout fails with the already-checked-out error, and the successful
\* returnBook of that loan leaves the item free for the next checkout.
C15_LentOnlyWhenFree ==
    [][ /\ \A b \in Books : \A br \in IdsOf(directory) :
              (ret'.op = "checkoutBook"
                 /\ (\E k \in 1..Len(directory) : directory[k].id = br)
                 /\ CheckoutCall(b, br, <<>>))
              => IF getActiveTransactions(ledger, b) = {}
                 THEN ret' = Result("checkoutBook", TRUE, "")
                 ELSE ret' = Result("checkoutBook", FALSE, "This book is already checked out")
        /\ \A k \in Returned(ledger') \ Returned(ledger) :
              getActiveTransactions(ledger', ledger[k].bookId) = {}
      ]_vars

\* an item lent again after its earlier loan was returned
C15_Witness ==
    /\ ret = Result("checkoutBook", TRUE, "")
    /\ Last(ledger).status = "Active"
    /\ \E k \in Returned(ledger) : ledger[k].bookId = Last(ledger).bookId

\* C16: no two borrowers of the directory with a non-empty stored email have
\* emails that are equal ignoring letter case, whatever email strings were
\* submitted: ones that differ from an existing email only by surrounding blanks
\* or by characters the sanitizer rewrites included.
C16_EmailsUnique ==
    \A j, k \in 1..Len(directory) :
       (j < k /\ directory[j].email # <<>> /\ directory[k].email # <<>>)
          => toLowerCase(directory[j].email) # toLowerCase(directory[k].email)

\* a step of the one object that is a call of registerBorrower with the data d
RegisterCall(d) == ret'.op = "registerBorrower" /\ registerBorrower(1, d, 0)

\* the email is that of a borrower of the directory, in some letter case
KnownEmail(email) ==
    \E k \in 1..Len(directory) :
       directory[k].email # <<>> /\ toLowerCase(directory[k].email) = toLowerCase(email)

\* C17: registerBorrower fails with the name-required error when the name is
\* missing or blank, and with the duplicate-email error when the email given is
\* that of an existing borrower in any letter case; in both cases no borrower is
\* added and the directory is unchanged, in memory and in the store.
C17_RegistrationRefused ==
    [][ \A d \in RegistrationInputs :
           RegisterCall(d) =>
              /\ (d.name = <<>> \/ \A c \in 1..Len(d.name) : d.name[c] = " ")
                    => ret' = Result("registerBorrower", FALSE, "Borrower name is required")
              /\ (~(d.name = <<>> \/ \A c \in 1..Len(d.name) : d.name[c] = " ")
                    /\ d.email # <<>> /\ KnownEmail(d.email))
                    => ret' = Result("registerBorrower", FALSE,
                                     "Borrower with this email already exists")
              /\ ~ret'.success => /\ borrowers' = borrowers
                                  /\ lsBorrowers' = lsBorrowers
      ]_vars

\* a registration refused for its email, which the directory holds in capitals
C17_Witness ==
    /\ ret = Result("registerBorrower", FALSE, "Borrower with this email already exists")
    /\ Len(directory) = 1
    /\ directory[1].email = <<"A">>
    /\ lsBorrowers = <<directory>>

\* C18: all transaction ids of the ledger are pairwise distinct after any
\* sequence of successful checkouts, whatever the clock readings: several
\* checkouts of different items at one instant included.
C18_TransactionIdsDistinct ==
    \A j, k \in 1..Len(ledger) : j < k => ledger[j].id # ledger[k].id

\* C19: all borrower ids of the directory are pairwise distinct after any
\* sequence of successful registrations, whatever the clock readings, so an id
\* refers to the one borrower that was given it.
C19_BorrowerIdsDistinct ==
    \A j, k \in 1..Len(directory) : j < k => directory[j].id # directory[k].id

\* a step that is a call of login with the username u and the password p
LoginCall(u, p) == ret'.op = "login" /\ login(u, p)

\* the failed logins under the name of u since its last successful one
failed(u) == failures[toLowerCase(u)]

\* C20: after 5 failed login attempts for a username, every login attempt for
\* that username, one with the correct password included, is rejected for the
\* 15 minutes that follow the fifth failed attempt.  (Stated for five failed
\* attempts that all fall within 15 minutes.)
C20_LockedAfterFifthFailure ==
    [][ \A u \in Usernames, p \in Passwords :
           (/\ Len(failed(u)) = maxLoginAttempts
            /\ failed(u)[maxLoginAttempts] - failed(u)[1] < lockoutDuration
            /\ now - failed(u)[maxLoginAttempts] < lockoutDuration
            /\ LoginCall(u, p))
           => ~ret'.success
      ]_vars

Least(a, b) == IF a <= b THEN a ELSE b

\* the entries are the most recently logged ones, in logging order
NewestInOrder(entries, n) ==
    \A k \in 1..Len(entries) : entries[k].entityId = n - Len(entries) + k

LogCall(fits) ==
    /\ logged' = logged + 1
    /\ logs' = saveLogs(rotated(Append(logs, Last(logs'))), fits, TRUE).logs

C22_AdminOnly ==
    [][(/\ ret'.op \in {"register", "updateUserRole"}
        /\ ~hasRoleOf(currentUser, "Admin"))
          => (~ret'.success /\ users' = users)]_vars

\* C23: checkoutBook reads the clock at most once: the createdAt of every
\* transaction equals its checkoutDate and its id is that same instant, also
\* when the clock advances while the call runs.
C23_OneClockRead ==
    \A k \in 1..Len(ledger) :
       /\ ledger[k].createdAt = ledger[k].checkoutDate
       /\ ledger[k].id = ledger[k].checkoutDate

\* C24: every Active loan can be returned: for every Active transaction t of
\* the ledger, the call returnBook(t.id) succeeds and sets t itself, not
\* another transaction, to Returned.
C24_ActiveCanBeReturned ==
    [][ret'.op = "returnBook" =>
          \A k \in 1..Len(ledger) :
             (ledger[k].status = "Active" /\ \E f \in FineArgs : ReturnCall(ledger[k].id, f))
                => (ret'.success /\ ledger'[k].status = "Returned")]_vars

PositiveRates == {<<>>, <<3>>}

\* C25: at any one instant and for any positive dailyFine, a transaction is
\* among the answer of getOverdueBooks exactly when calculateFine of its id
\* is greater than 0, and that fine is then at least dailyFine.
C25_OverdueIffFined ==
    \A k \in 1..Len(ledger), r \in PositiveRates :
       LET fine == fineFor(ledger, ledger[k].id, r, now) IN
       /\ isOverdue(ledger[k], now) <=> fine > 0
       /\ isOverdue(ledger[k], now) => fine >= rateOrDefault(r)

lockedOut(u) == checkLockout(lsAuth, u, now).locked

\* C26: a lockout always ends.  A login attempted while the username is locked
\* out is not recorded, so it does not extend the lockout; as time passes every
\* locked-out username becomes unlocked; and a login with the correct password
\* made while the username is not locked out succeeds and clears the recorded
\* failed attempts.
C26_LockoutEnds ==
    /\ [][\A u \in Usernames, p \in Passwords :
            LoginCall(u, p) =>
               /\ lockedOut(u) => (~ret'.success /\ lsAuth' = lsAuth)
               /\ (~lockedOut(u) /\ p = admin123) =>
                     (ret'.success /\ storedAttempts(lsAuth', u) = <<>>)]_vars
    /\ \A u \in Usernames : lockedOut(u) ~> ~lockedOut(u)

\* a lockout that has ended with its five attempts still stored, after a login
\* was refused during it
C26_Witness ==
    /\ ret.op = "login" /\ ~ret.success /\ ret.error = Locked(0).error
    /\ Len(storedAttempts(lsAuth, admin)) = maxLoginAttempts
    /\ ~lockedOut(admin)

storedUser(id) == users[findUserById(users, id)]

\* C27: the role held in currentUser always equals the role of the stored
\* user record with the same id, also right after updateUserRole has changed
\* the role of that user.
C27_CurrentRoleIsStoredRole ==
    currentUser # <<>> => currentUser[1].role = storedUser(currentUser[1].id).role

OpenSessionsOf(ss, userId) ==
    {k \in 1..Len(ss) : ss[k].userId = userId /\ ss[k].endTime = <<>>}

\* C28: after any sequence of login and logout calls, a login made while
\* already logged in included, every user has at most one open session (one
\* without endTime), and after logout the user who was logged in has none.
C28_OneOpenSession ==
    [][/\ \A k \in 1..Len(users') : Cardinality(OpenSessionsOf(sessions', users'[k].id)) <= 1
       /\ (ret'.op = "logout" /\ currentUser # <<>>)
             => OpenSessionsOf(sessions', currentUser[1].id) = {}]_vars

RoleOrder == <<"Member", "Librarian", "Admin">>

\* a current user of the role given
UserOf(role) == <<[role |-> role]>>

\* C29: permissions are monotone in Member < Librarian < Admin: whenever
\* hasPermission answers true to the current user for an action, it answers
\* true for that action to a user of every higher role.
C29_PermissionsMonotone ==
    [][(ret'.op = "hasPermission" /\ ret'.value) =>
          \A lo, hi \in 1..Len(RoleOrder) :
             (lo < hi /\ currentUser # <<>> /\ currentUser[1].role = RoleOrder[lo])
                => hasPermissionOf(UserOf(RoleOrder[hi]), ret'.args[1])]_vars

====
